---------------------------- MODULE Spec2Model ----------------------------
(***************************************************************************)
(* Model of main_lr_pl_v.cpp: an interactive editor of a 2-D point set     *)
(* with a least-squares line or parabola fitted through it.                *)
(*                                                                         *)
(* Numbers.  The program computes in float and double.  The model          *)
(* computes in exact rationals extended with the three non-finite values   *)
(* an IEEE division produces: a number is a pair <<n, d>> in lowest terms  *)
(* with d > 0, and <<1,0>>, <<-1,0>>, <<0,0>> stand for +Inf, -Inf, NaN.   *)
(* Rounding is therefore abstracted away; division by zero, NaN            *)
(* propagation and NaN comparisons are not.                                *)
(*                                                                         *)
(* Intermediate values are handed on as operator arguments rather than     *)
(* named in LET, so that each is evaluated once.                           *)
(***************************************************************************)
EXTENDS Integers, Sequences, FiniteSets

VARIABLES
    dataPoints,      \* std::vector<Point>: sequence of <<x, y>>
    currentReg,      \* RegressionType: "LINEAR" or "POLYNOMIAL2"
    slope,           \* linear coefficients
    intercept,
    polyCoeffs,      \* Poly2Coeffs [a, b, c]
    minX, maxX,      \* bounds of the plotted data range
    minY, maxY,
    winSize,         \* window.getSize(): <<width, height>> in pixels
    axisX, axisY,    \* the two end points of each drawn axis
    labelX, labelY,  \* positions of the axis labels
    userInputX,      \* the typed text buffer, a sequence of characters
    predictionText,  \* <<"?">>, <<"invalid">> or <<"Y", yPred>>
    pc               \* "loop": in the event loop; "closed": window closed;
                     \* "input"/"linear"/"poly": a bare call of a fit

vars == <<dataPoints, currentReg, slope, intercept, polyCoeffs, minX, maxX,
          minY, maxY, winSize, axisX, axisY, labelX, labelY, userInputX,
          predictionText, pc>>

---------------------------------------------------------------------------
(* Extended rational arithmetic (float / double of the source).            *)

Abs(i) == IF i < 0 THEN -i ELSE i

Sgn(i) == IF i < 0 THEN -1 ELSE IF i > 0 THEN 1 ELSE 0

RECURSIVE GCD(_, _)
GCD(a, b) == IF b = 0 THEN a ELSE GCD(b, a % b)

NormBy(n, d, g) ==
    IF d < 0 THEN <<(-n) \div g, (-d) \div g>> ELSE <<n \div g, d \div g>>

\* <<n, d>> in lowest terms with d >= 0; d = 0 keeps only the sign of n.
Norm(n, d) ==
    IF d = 0 THEN <<Sgn(n), 0>> ELSE NormBy(n, d, GCD(Abs(n), Abs(d)))

R(i) == <<i, 1>>

Frac(n, d) == Norm(n, d)

NaN == <<0, 0>>

PInf == <<1, 0>>

IsFinite(a) == a[2] # 0

FNeg(a) == <<-a[1], a[2]>>

AddBy(a, b, g) ==
    Norm(a[1] * (b[2] \div g) + b[1] * (a[2] \div g), a[2] * (b[2] \div g))

\* Inf + Inf = Inf, Inf - Inf = NaN, Inf + x = Inf, NaN + x = NaN.
FAdd(a, b) ==
    IF a[2] # 0 /\ b[2] # 0 THEN AddBy(a, b, GCD(a[2], b[2]))
    ELSE IF a[2] # 0 THEN b
    ELSE IF b[2] # 0 \/ a = b THEN a
    ELSE NaN

FSub(a, b) == FAdd(a, FNeg(b))

MulBy(a, b, g1, g2) ==
    <<(a[1] \div g1) * (b[1] \div g2), (a[2] \div g2) * (b[2] \div g1)>>

\* Cross-reduced before multiplying; Inf * 0 = NaN, Inf * x keeps the sign.
FMul(a, b) ==
    IF a[2] # 0 /\ b[2] # 0
    THEN MulBy(a, b, GCD(Abs(a[1]), b[2]), GCD(Abs(b[1]), a[2]))
    ELSE <<Sgn(a[1] * b[1]), 0>>

\* 1/x: 1/0 = +Inf (the zeros the program divides by are positive), 1/Inf = 0.
FRecip(a) ==
    IF a[1] > 0 THEN <<a[2], a[1]>>
    ELSE IF a[1] < 0 THEN <<-a[2], -a[1]>>
    ELSE IF a[2] = 0 THEN NaN
    ELSE PInf

FDiv(a, b) == FMul(a, FRecip(b))

LtBy(a, b, g) == a[1] * (b[2] \div g) < b[1] * (a[2] \div g)

\* a < b; every comparison with NaN is false.
FLt(a, b) ==
    IF a[2] # 0 /\ b[2] # 0 THEN LtBy(a, b, GCD(a[2], b[2]))
    ELSE /\ a # NaN
         /\ b # NaN
         /\ IF a[2] # 0 THEN b[1] > 0
            ELSE IF b[2] # 0 THEN a[1] < 0
            ELSE a[1] < b[1]

FGt(a, b) == FLt(b, a)

\* a != b of C++: true as soon as one side is NaN.
FNe(a, b) == a = NaN \/ b = NaN \/ a # b

\* std::fabs(D) < 1e-12.  1e12 exceeds the integers of TLC, so the
\* test |n| * 10^12 < d is carried out in two steps of 10^6.
LtSingularEps(D) ==
    /\ D[2] # 0
    /\ \/ D[1] = 0
       \/ /\ Abs(D[1]) <= 2147
          /\ Abs(D[1]) * 1000000 < ((D[2] - 1) \div 1000000) + 1

\* s[1] + ... + s[k], accumulated from 0 in index order.
RECURSIVE SumSeq(_, _)
SumSeq(s, k) == IF k = 0 THEN R(0) ELSE FAdd(SumSeq(s, k - 1), s[k])

Pt(x, y) == <<x, y>>

Xs(points) == [i \in 1..Len(points) |-> points[i][1]]

Ys(points) == [i \in 1..Len(points) |-> points[i][2]]

---------------------------------------------------------------------------
(* computeLinearRegression                                                 *)

\* The wrong sign a slip in "meanY - slope * meanX" would give.
LinearResultPlus(meanX, meanY, slp) == <<slp, FAdd(meanY, FMul(slp, meanX))>>

LinearResult(meanX, meanY, slp) == <<slp, FSub(meanY, FMul(slp, meanX))>>

\* The division carried out whatever the denominator.
LinearFromSumsUnguarded(meanX, meanY, numerator, denominator) ==
    LinearResult(meanX, meanY, FDiv(numerator, denominator))

LinearFromSums(meanX, meanY, numerator, denominator) ==
    LinearResult(meanX, meanY,
                 IF FNe(denominator, R(0)) THEN FDiv(numerator, denominator)
                 ELSE R(0))

Product(a, b) == FMul(a, b)

Square(a) == FMul(a, a)

LinearFromMeans(points, meanX, meanY) ==
    LinearFromSums(meanX, meanY,
        SumSeq([i \in 1..Len(points) |->
                   Product(FSub(points[i][1], meanX), FSub(points[i][2], meanY))],
               Len(points)),
        SumSeq([i \in 1..Len(points) |-> Square(FSub(points[i][1], meanX))],
               Len(points)))

computeLinearRegression(points) ==
    IF points = <<>> THEN <<R(0), R(0)>>
    ELSE LinearFromMeans(points,
             FDiv(SumSeq(Xs(points), Len(points)), R(Len(points))),
             FDiv(SumSeq(Ys(points), Len(points)), R(Len(points))))

---------------------------------------------------------------------------
(* computePolynomialRegression2                                            *)

ZeroCoeffs == [a |-> R(0), b |-> R(0), c |-> R(0)]

\* One iteration's x, y, x2, x3, x4, x*y, x2*y.
TermsCube(x, y, x2, x3) ==
    <<x, y, x2, x3, FMul(x3, x), FMul(x, y), FMul(x2, y)>>

TermsSquare(x, y, x2) == TermsCube(x, y, x2, FMul(x2, x))

Terms(p) == TermsSquare(p[1], p[2], FMul(p[1], p[1]))

AddTerms(S, t) == [j \in 1..7 |-> FAdd(S[j], t[j])]

\* <<Sx, Sy, Sx2, Sx3, Sx4, Sxy, Sx2y>> after the first k points.
RECURSIVE PowerSums(_, _)
PowerSums(points, k) ==
    IF k = 0 THEN [j \in 1..7 |-> R(0)]
    ELSE AddTerms(PowerSums(points, k - 1), Terms(points[k]))

\* The cofactor expansion with the sign of its middle term lost.
det3Unsigned(m) ==
    FAdd(FAdd(FMul(m[1][1], FSub(FMul(m[2][2], m[3][3]), FMul(m[2][3], m[3][2]))),
              FMul(m[1][2], FSub(FMul(m[2][1], m[3][3]), FMul(m[2][3], m[3][1])))),
         FMul(m[1][3], FSub(FMul(m[2][1], m[3][2]), FMul(m[2][2], m[3][1]))))

det3(m) ==
    FAdd(FSub(FMul(m[1][1], FSub(FMul(m[2][2], m[3][3]), FMul(m[2][3], m[3][2]))),
              FMul(m[1][2], FSub(FMul(m[2][1], m[3][3]), FMul(m[2][3], m[3][1])))),
         FMul(m[1][3], FSub(FMul(m[2][1], m[3][2]), FMul(m[2][2], m[3][1]))))

\* The matrix m with column col replaced by the vector B (A_c, A_b, A_a).
ReplaceColumn(m, col, B) ==
    [r \in 1..3 |-> [k \in 1..3 |-> IF k = col THEN B[r] ELSE m[r][k]]]

\* Cramer's rule with the columns of b and c crossed over.
CramerCrossed(A, B, D) ==
    IF LtSingularEps(D) THEN ZeroCoeffs
    ELSE [ a |-> FDiv(det3(ReplaceColumn(A, 3, B)), D),
           b |-> FDiv(det3(ReplaceColumn(A, 1, B)), D),
           c |-> FDiv(det3(ReplaceColumn(A, 2, B)), D) ]

\* Cramer's rule without the test of the determinant.
CramerUnguarded(A, B, D) ==
    [ a |-> FDiv(det3(ReplaceColumn(A, 3, B)), D),
      b |-> FDiv(det3(ReplaceColumn(A, 2, B)), D),
      c |-> FDiv(det3(ReplaceColumn(A, 1, B)), D) ]

Cramer(A, B, D) ==
    IF LtSingularEps(D) THEN ZeroCoeffs
    ELSE [ a |-> FDiv(det3(ReplaceColumn(A, 3, B)), D),
           b |-> FDiv(det3(ReplaceColumn(A, 2, B)), D),
           c |-> FDiv(det3(ReplaceColumn(A, 1, B)), D) ]

SolveNormalEquations(A, B) == Cramer(A, B, det3(A))

\* S = <<Sx, Sy, Sx2, Sx3, Sx4, Sxy, Sx2y>>
NormalEquations(n, S) ==
    SolveNormalEquations(<< <<n,    S[1], S[3]>>,
                            <<S[1], S[3], S[4]>>,
                            <<S[3], S[4], S[5]>> >>,
                         <<S[2], S[6], S[7]>>)

computePolynomialRegression2(points) ==
    IF Len(points) < 3 THEN ZeroCoeffs
    ELSE NormalEquations(R(Len(points)), PowerSums(points, Len(points)))

evaluatePoly2(coeffs, x) ==
    FAdd(FAdd(FMul(FMul(coeffs.a, x), x), FMul(coeffs.b, x)), coeffs.c)

---------------------------------------------------------------------------
(* Bounds of the model.                                                    *)

\* Most points the vector may hold for a click to add one more.
MaxPoints == 2

\* Longest text buffer in the event-loop specification.
MaxInput == 1

---------------------------------------------------------------------------
(* Program constants and inputs.                                           *)

\* The demo points pushed when the file gave none.
DemoPoints ==
    << Pt(R(1), R(1)), Pt(R(2), R(2)), Pt(R(3), Frac(13, 10)),
       Pt(R(4), R(3)), Pt(R(5), Frac(9, 2)) >>

\* sf::VideoMode(800, 600)
InitialWinSize == <<800, 600>>

\* Point lists loadDataFromCSV may return (the empty list: no usable file).
LoadedFiles ==
    { <<>>,
      << Pt(R(0), R(0)) >> }

\* Window sizes a Resized event may deliver: one whose plot area (the window
\* less the margins 50+50 and 120+50+50) has zero width and height, and one
\* lower than the vertical margins together.
ResizeSizes == { <<100, 220>>, <<110, 160>> }

\* Pixels of the mouse clicks; a click is delivered only inside the window.
\* In the initial window (50, 170) is the top left corner of the plot area,
\* (400, 360) its centre, (410, 360) lies 10 pixels beside the centre and
\* (400, 460) next to where the third demo point is drawn.
Clicks == { <<50, 170>>, <<400, 360>>, <<410, 360>>, <<400, 460>> }

\* Coordinates of the points a click may add, when finite.
GridCoords == -1..1

\* Characters TextEntered may deliver besides Enter and Backspace.
TypedChars == {"6", "a"}

Digits == {"0", "1", "2", "3", "4", "5", "6", "7", "8", "9"}

AcceptedChars == Digits \cup {".", "-"}

DigitVal(ch) ==
    CASE ch = "0" -> 0 [] ch = "1" -> 1 [] ch = "2" -> 2 [] ch = "3" -> 3
      [] ch = "4" -> 4 [] ch = "5" -> 5 [] ch = "6" -> 6 [] ch = "7" -> 7
      [] ch = "8" -> 8 [] ch = "9" -> 9

---------------------------------------------------------------------------
(* updateModelAndBounds                                                    *)

StepMin(v, m) == IF FLt(v, m) THEN v ELSE m

StepMax(v, m) == IF FGt(v, m) THEN v ELSE m

\* The min/max scan: starts from the first point, replaces on < and >.
RECURSIVE ScanMin(_, _)
ScanMin(vals, k) ==
    IF k = 1 THEN vals[1] ELSE StepMin(vals[k], ScanMin(vals, k - 1))

RECURSIVE ScanMax(_, _)
ScanMax(vals, k) ==
    IF k = 1 THEN vals[1] ELSE StepMax(vals[k], ScanMax(vals, k - 1))

\* <<min - pad, max + pad>> of a non-empty list of values.
PaddedRange(vals, pad) ==
    <<FSub(ScanMin(vals, Len(vals)), pad), FAdd(ScanMax(vals, Len(vals)), pad)>>

ModelOf(rx, ry, lin, poly) ==
    [ minX |-> rx[1], maxX |-> rx[2], minY |-> ry[1], maxY |-> ry[2],
      slope |-> lin[1], intercept |-> lin[2], polyCoeffs |-> poly ]

\* The fit of the other kind recomputed, the active one left as it was.
updateModelAndBoundsOtherKind(points, reg, s, i, pcf) ==
    IF points # <<>>
    THEN ModelOf(PaddedRange(Xs(points), R(1)), PaddedRange(Ys(points), R(1)),
                 IF reg # "LINEAR" THEN computeLinearRegression(points)
                 ELSE <<s, i>>,
                 IF reg # "LINEAR" THEN pcf
                 ELSE computePolynomialRegression2(points))
    ELSE ModelOf(<<R(-1), R(1)>>, <<R(-1), R(1)>>, <<R(0), R(0)>>, ZeroCoeffs)

\* The values of the captured variables after updateModelAndBounds() ran on
\* points with fit kind reg; s, i, pcf are slope, intercept, polyCoeffs before.
updateModelAndBounds(points, reg, s, i, pcf) ==
    IF points # <<>>
    THEN ModelOf(PaddedRange(Xs(points), R(1)), PaddedRange(Ys(points), R(1)),
                 IF reg = "LINEAR" THEN computeLinearRegression(points)
                 ELSE <<s, i>>,
                 IF reg = "LINEAR" THEN pcf
                 ELSE computePolynomialRegression2(points))
    ELSE ModelOf(<<R(-1), R(1)>>, <<R(-1), R(1)>>, <<R(0), R(0)>>, ZeroCoeffs)

---------------------------------------------------------------------------
(* Coordinate transforms.  v is the geometry the lambdas capture:          *)
(* [w, h, minX, maxX, minY, maxY].                                         *)

View(size, m) ==
    [ w |-> R(size[1]), h |-> R(size[2]),
      minX |-> m.minX, maxX |-> m.maxX, minY |-> m.minY, maxY |-> m.maxY ]

\* topMargin = 120
toScreenCoords(x, y, v) ==
    << FAdd(R(50),
            FMul(FDiv(FSub(x, v.minX), FSub(v.maxX, v.minX)), FSub(v.w, R(100)))),
       FSub(FSub(v.h, R(50)),
            FMul(FDiv(FSub(y, v.minY), FSub(v.maxY, v.minY)),
                 FSub(FSub(v.h, R(120)), R(100)))) >>

toDataCoords(sx, sy, v) ==
    << FAdd(v.minX,
            FMul(FDiv(FSub(sx, R(50)), FSub(v.w, R(100))), FSub(v.maxX, v.minX))),
       FAdd(v.minY,
            FMul(FDiv(FSub(FSub(v.h, R(50)), sy), FSub(FSub(v.h, R(120)), R(100))),
                 FSub(v.maxY, v.minY))) >>

\* lx and ly are the positions the labels are placed by.
AxesOf(x0, x1, y0, y1, lx, ly) ==
    [ axisX  |-> <<x0, x1>>,
      axisY  |-> <<y0, y1>>,
      labelX |-> <<FSub(lx[1], R(20)), FAdd(lx[2], R(5))>>,
      labelY |-> <<FAdd(ly[1], R(5)), ly[2]>> ]

updateAxes(v) ==
    AxesOf(toScreenCoords(v.minX, R(0), v), toScreenCoords(v.maxX, R(0), v),
           toScreenCoords(R(0), v.minY, v), toScreenCoords(R(0), v.maxY, v),
           toScreenCoords(v.maxX, R(0), v), toScreenCoords(R(0), v.maxY, v))

---------------------------------------------------------------------------
(* removeNearestPoint                                                      *)

SumOfSquares(dx, dy) == FAdd(FMul(dx, dx), FMul(dy, dy))

DistSqTo(ptScreen, mx, my) ==
    SumOfSquares(FSub(ptScreen[1], mx), FSub(ptScreen[2], my))

\* Distances are carried as their squares: sqrt is increasing, so dist <
\* minDist and minDist < 10 compare as the squares do.  The start value
\* numeric_limits<float>::max() exceeds every finite distance and is not below
\* an infinite one, as +Inf is here.
DistSq(p, mx, my, v) == DistSqTo(toScreenCoords(p[1], p[2], v), mx, my)

\* "<=" for "<": the last of several nearest points wins.
NearestStepLast(prev, dist, i) ==
    IF FLt(dist, prev.minDistSq) \/ dist = prev.minDistSq
    THEN [minDistSq |-> dist, minIndex |-> i]
    ELSE prev

\* One iteration: i is the C++ index (from 0) of the point at distance dist.
NearestStep(prev, dist, i) ==
    IF FLt(dist, prev.minDistSq)
    THEN [minDistSq |-> dist, minIndex |-> i]
    ELSE prev

\* The loop after its first k iterations; minIndex is -1 while nothing was found.
RECURSIVE NearestScan(_, _, _, _, _)
NearestScan(points, mx, my, v, k) ==
    IF k = 0 THEN [minDistSq |-> PInf, minIndex |-> -1]
    ELSE NearestStep(NearestScan(points, mx, my, v, k - 1),
                     DistSq(points[k], mx, my, v), k - 1)

\* vector::erase(begin() + idx), idx counted from 0.
EraseAt(points, idx) ==
    [j \in 1..(Len(points) - 1) |-> IF j <= idx THEN points[j] ELSE points[j + 1]]

---------------------------------------------------------------------------
(* std::stof on the typed buffer.  The buffer holds only digits, '.' and   *)
(* '-', so no whitespace, '+', exponent, hex, "inf" or "nan" can occur;    *)
(* stof converts the longest prefix that is a number and throws            *)
(* invalid_argument when there is none.  (out_of_range needs more digits   *)
(* than the bounded buffer holds.)                                         *)

RECURSIVE DigitsEnd(_, _)
DigitsEnd(buf, i) ==
    IF i <= Len(buf) /\ buf[i] \in Digits THEN DigitsEnd(buf, i + 1) ELSE i

\* The integer written by buf[from..to-1] (0 when empty).
RECURSIVE DigitsValue(_, _, _)
DigitsValue(buf, from, to) ==
    IF to <= from THEN 0
    ELSE 10 * DigitsValue(buf, from, to - 1) + DigitVal(buf[to - 1])

RECURSIVE Pow10(_)
Pow10(k) == IF k = 0 THEN 1 ELSE 10 * Pow10(k - 1)

\* buf[start..intEnd-1] are the digits before the point, buf[intEnd+1..fracEnd-1]
\* those after it (none, and fracEnd = intEnd + 1, without a point).
StofValue(buf, neg, start, intEnd, fracEnd) ==
    IF (intEnd - start) + (fracEnd - (intEnd + 1)) = 0 THEN <<"throw">>
    ELSE <<"ok", FMul(R(IF neg THEN -1 ELSE 1),
                      FAdd(R(DigitsValue(buf, start, intEnd)),
                           Frac(DigitsValue(buf, intEnd + 1, fracEnd),
                                Pow10(fracEnd - (intEnd + 1)))))>>

StofFrom(buf, neg, start, intEnd) ==
    StofValue(buf, neg, start, intEnd,
              IF intEnd <= Len(buf) /\ buf[intEnd] = "."
              THEN DigitsEnd(buf, intEnd + 1) ELSE intEnd + 1)

StofSigned(buf, neg, start) == StofFrom(buf, neg, start, DigitsEnd(buf, start))

stof(buf) ==
    StofSigned(buf, Len(buf) >= 1 /\ buf[1] = "-",
               IF Len(buf) >= 1 /\ buf[1] = "-" THEN 2 ELSE 1)

---------------------------------------------------------------------------
(* State after construction.                                               *)

CurView ==
    [ w |-> R(winSize[1]), h |-> R(winSize[2]),
      minX |-> minX, maxX |-> maxX, minY |-> minY, maxY |-> maxY ]

SetAxes(a) ==
    /\ axisX' = a.axisX
    /\ axisY' = a.axisY
    /\ labelX' = a.labelX
    /\ labelY' = a.labelY

\* The captured variables take the values m; then updateAxes() runs.
SetModelAndAxes(m) ==
    /\ minX' = m.minX
    /\ maxX' = m.maxX
    /\ minY' = m.minY
    /\ maxY' = m.maxY
    /\ slope' = m.slope
    /\ intercept' = m.intercept
    /\ polyCoeffs' = m.polyCoeffs
    /\ SetAxes(updateAxes(View(winSize, m)))

InitAxes(a) ==
    /\ axisX = a.axisX
    /\ axisY = a.axisY
    /\ labelX = a.labelX
    /\ labelY = a.labelY

InitModel(m) ==
    /\ slope = m.slope
    /\ intercept = m.intercept
    /\ polyCoeffs = m.polyCoeffs
    /\ minX = m.minX
    /\ maxX = m.maxX
    /\ minY = m.minY
    /\ maxY = m.maxY
    /\ InitAxes(updateAxes(View(InitialWinSize, m)))

\* main() up to the event loop, with points the vector after loading.
InitWith(points) ==
    /\ dataPoints = points
    /\ currentReg = "LINEAR"
    /\ InitModel(updateModelAndBounds(points, "LINEAR", R(0), R(0), ZeroCoeffs))
    /\ winSize = InitialWinSize
    /\ userInputX = <<>>
    /\ predictionText = <<"?">>
    /\ pc = "loop"

Init ==
    \E file \in LoadedFiles : InitWith(IF file = <<>> THEN DemoPoints ELSE file)

---------------------------------------------------------------------------
(* Event handlers of the main loop.                                        *)

\* A click is taken up only where the point it adds lies on the model's grid
\* or is not finite.
OnGrid(p) ==
    /\ IsFinite(p[1]) => (p[1][2] = 1 /\ p[1][1] \in GridCoords)
    /\ IsFinite(p[2]) => (p[2][2] = 1 /\ p[2][1] \in GridCoords)

InsideWindow(sx, sy) == sx < winSize[1] /\ sy < winSize[2]

Closed ==
    /\ pc = "loop"
    /\ pc' = "closed"
    /\ UNCHANGED <<dataPoints, currentReg, slope, intercept, polyCoeffs, minX,
                   maxX, minY, maxY, winSize, axisX, axisY, labelX, labelY,
                   userInputX, predictionText>>

Resized(size) ==
    /\ pc = "loop"
    /\ winSize' = size
    /\ SetAxes(updateAxes([CurView EXCEPT !.w = R(size[1]), !.h = R(size[2])]))
    /\ UNCHANGED <<dataPoints, currentReg, slope, intercept, polyCoeffs, minX,
                   maxX, minY, maxY, userInputX, predictionText, pc>>

\* The try block: r is what std::stof gave.
Predict(r) ==
    IF r[1] = "throw" THEN <<"invalid">>
    ELSE <<"Y", IF currentReg = "LINEAR"
                THEN FAdd(FMul(slope, r[2]), intercept)
                ELSE evaluatePoly2(polyCoeffs, r[2])>>

\* TextEntered with '\r' or '\n'.
EnterPressed ==
    /\ pc = "loop"
    /\ predictionText' = Predict(stof(userInputX))
    /\ UNCHANGED <<dataPoints, currentReg, slope, intercept, polyCoeffs, minX,
                   maxX, minY, maxY, winSize, axisX, axisY, labelX, labelY,
                   userInputX, pc>>

\* TextEntered with unicode 8 on a non-empty buffer.
Backspace ==
    /\ pc = "loop"
    /\ userInputX # <<>>
    /\ userInputX' = SubSeq(userInputX, 1, Len(userInputX) - 1)
    /\ UNCHANGED <<dataPoints, currentReg, slope, intercept, polyCoeffs, minX,
                   maxX, minY, maxY, winSize, axisX, axisY, labelX, labelY,
                   predictionText, pc>>

\* TextEntered with another character below 128; maxLen bounds the buffer.
CharEntered(ch, maxLen) ==
    /\ pc = "loop"
    /\ Len(userInputX) < maxLen
    /\ userInputX' = IF ch \in AcceptedChars THEN Append(userInputX, ch)
                     ELSE userInputX
    /\ UNCHANGED <<dataPoints, currentReg, slope, intercept, polyCoeffs, minX,
                   maxX, minY, maxY, winSize, axisX, axisY, labelX, labelY,
                   predictionText, pc>>

\* KeyPressed L or P: reg is the kind the key selects.
KeyRegression(reg) ==
    /\ pc = "loop"
    /\ currentReg' = reg
    /\ SetModelAndAxes(updateModelAndBounds(dataPoints, reg, slope, intercept,
                                            polyCoeffs))
    /\ UNCHANGED <<dataPoints, winSize, userInputX, predictionText, pc>>

KeyL == KeyRegression("LINEAR")

KeyP == KeyRegression("POLYNOMIAL2")

\* KeyPressed S: the points go to data_updated.csv; no variable changes.
KeyS ==
    /\ pc = "loop"
    /\ UNCHANGED vars

\* push_back(dataPos), updateModelAndBounds(), updateAxes().
AddPoint(dataPos) ==
    /\ OnGrid(dataPos)
    /\ dataPoints' = Append(dataPoints, Pt(dataPos[1], dataPos[2]))
    /\ SetModelAndAxes(updateModelAndBounds(
           Append(dataPoints, Pt(dataPos[1], dataPos[2])), currentReg, slope,
           intercept, polyCoeffs))

\* MouseButtonPressed, left button.
MouseLeft(sx, sy) ==
    /\ pc = "loop"
    /\ InsideWindow(sx, sy)
    /\ Len(dataPoints) < MaxPoints
    /\ AddPoint(toDataCoords(R(sx), R(sy), CurView))
    /\ UNCHANGED <<currentReg, winSize, userInputX, predictionText, pc>>

\* The end of removeNearestPoint: found is what the loop left.
RemoveFound(found) ==
    /\ IF FLt(found.minDistSq, R(10 * 10)) /\ found.minIndex >= 0
       THEN /\ dataPoints' = EraseAt(dataPoints, found.minIndex)
            /\ SetModelAndAxes(updateModelAndBounds(
                   EraseAt(dataPoints, found.minIndex), currentReg, slope,
                   intercept, polyCoeffs))
       ELSE UNCHANGED <<dataPoints, slope, intercept, polyCoeffs, minX, maxX,
                        minY, maxY, axisX, axisY, labelX, labelY>>

\* MouseButtonPressed, right button: removeNearestPoint(sx, sy).
MouseRight(sx, sy) ==
    /\ pc = "loop"
    /\ InsideWindow(sx, sy)
    /\ UNCHANGED <<currentReg, winSize, userInputX, predictionText, pc>>
    /\ IF dataPoints = <<>>
       THEN UNCHANGED <<dataPoints, slope, intercept, polyCoeffs, minX, maxX,
                        minY, maxY, axisX, axisY, labelX, labelY>>
       ELSE RemoveFound(NearestScan(dataPoints, R(sx), R(sy), CurView,
                                    Len(dataPoints)))

Next ==
    \/ Closed
    \/ \E size \in ResizeSizes : Resized(size)
    \/ EnterPressed
    \/ Backspace
    \/ \E ch \in TypedChars : CharEntered(ch, MaxInput)
    \/ KeyL
    \/ KeyP
    \/ KeyS
    \/ \E q \in Clicks : MouseLeft(q[1], q[2])
    \/ \E q \in Clicks : MouseRight(q[1], q[2])

Spec == Init /\ [][Next]_vars


---------------------------------------------------------------------------
(* The two fits as pure functions: the argument is drawn from every list of *)
(* at most MaxFitLen points of a small grid, then each fit is called on it. *)

\* Longest list handed to a fit.
MaxFitLen == 3

FitPoints ==
    { Pt(R(x), R(y)) : x \in 0..2, y \in {0, 1, 3} }
    \cup { Pt(R(2), R(4)), Pt(R(2), R(5)) }

FitInputs == UNION { [1..n -> FitPoints] : n \in 0..MaxFitLen }

InitFit ==
    /\ dataPoints \in FitInputs
    /\ currentReg = "LINEAR"
    /\ InitModel([ slope |-> R(0), intercept |-> R(0), polyCoeffs |-> ZeroCoeffs,
                   minX |-> R(-1), maxX |-> R(1), minY |-> R(-1), maxY |-> R(1) ])
    /\ winSize = InitialWinSize
    /\ userInputX = <<>>
    /\ predictionText = <<"?">>
    /\ pc = "input"

StoreLinear(res) ==
    /\ slope' = res[1]
    /\ intercept' = res[2]

\* auto [s, i] = computeLinearRegression(dataPoints)
CallLinear ==
    /\ pc = "input"
    /\ StoreLinear(computeLinearRegression(dataPoints))
    /\ pc' = "linear"
    /\ UNCHANGED <<dataPoints, currentReg, polyCoeffs, minX, maxX, minY, maxY,
                   winSize, axisX, axisY, labelX, labelY, userInputX,
                   predictionText>>

\* polyCoeffs = computePolynomialRegression2(dataPoints)
CallPoly ==
    /\ pc = "input"
    /\ polyCoeffs' = computePolynomialRegression2(dataPoints)
    /\ pc' = "poly"
    /\ UNCHANGED <<dataPoints, currentReg, slope, intercept, minX, maxX, minY,
                   maxY, winSize, axisX, axisY, labelX, labelY, userInputX,
                   predictionText>>

NextFit ==
    \/ CallLinear
    \/ CallPoly

SpecFit == InitFit /\ [][NextFit]_vars


---------------------------------------------------------------------------
(* The text entry alone, with a longer buffer and more characters.         *)

\* Longest text buffer in the text-entry specification.
MaxText == 3

TextChars == {"1", "2", ".", "-", "a"}

NextText ==
    \/ EnterPressed
    \/ Backspace
    \/ \E ch \in TextChars : CharEntered(ch, MaxText)

SpecText == Init /\ [][NextText]_vars

---------------------------------------------------------------------------
(* Properties of the fits, checked under SpecFit.                          *)

DistinctXs(points) == { points[i][1] : i \in 1..Len(points) }

\* Every point of the list lies on one line y = m*x + k: equal x give equal y
\* and every three points have a zero cross product.
OnOneLine(points) ==
    /\ \A i, j \in 1..Len(points) :
          points[i][1] = points[j][1] => points[i][2] = points[j][2]
    /\ \A i, j, k \in 1..Len(points) :
          FMul(FSub(points[j][1], points[i][1]), FSub(points[k][2], points[i][2]))
          = FMul(FSub(points[k][1], points[i][1]), FSub(points[j][2], points[i][2]))

\* The quadratic with coefficients coeffs passes through every point.
PassesThrough(coeffs, points) ==
    \A i \in 1..Len(points) : evaluatePoly2(coeffs, points[i][1]) = points[i][2]

RefLineFromSlope(n, Sx, Sy, slp) == <<slp, FDiv(FSub(Sy, FMul(slp, Sx)), n)>>

RefLineFromSums(n, Sx, Sy, Sxx, Sxy) ==
    RefLineFromSlope(n, Sx, Sy,
        FDiv(FSub(FMul(n, Sxy), FMul(Sx, Sy)), FSub(FMul(n, Sxx), FMul(Sx, Sx))))

RefLine(points) ==
    RefLineFromSums(R(Len(points)),
        SumSeq(Xs(points), Len(points)),
        SumSeq(Ys(points), Len(points)),
        SumSeq([i \in 1..Len(points) |-> FMul(points[i][1], points[i][1])],
               Len(points)),
        SumSeq([i \in 1..Len(points) |-> FMul(points[i][1], points[i][2])],
               Len(points)))

\* C5: on a non-empty list whose x are not all the same,
\* computeLinearRegression returns the least-squares line (here compared with
\* the line computed from the raw sums), and a list of points lying on one
\* line y = m*x + k gives back m and k.
LinearFitIsLeastSquares ==
    (pc = "linear" /\ Cardinality(DistinctXs(dataPoints)) >= 2) =>
        /\ <<slope, intercept>> = RefLine(dataPoints)
        /\ OnOneLine(dataPoints) =>
              \A i \in 1..Len(dataPoints) :
                 FAdd(FMul(slope, dataPoints[i][1]), intercept) = dataPoints[i][2]

LinearFitReached ==
    /\ pc = "linear"
    /\ dataPoints = << Pt(R(0), R(1)), Pt(R(1), R(3)), Pt(R(2), R(5)) >>
    /\ slope = R(2)
    /\ intercept = R(1)

VandermondeSq(x1, x2, x3) ==
    Square(FMul(FMul(FSub(x2, x1), FSub(x3, x1)), FSub(x3, x2)))

RefDeterminant(points) ==
    SumSeq([t \in 1..(Len(points) * Len(points) * Len(points)) |->
              IF /\ ((t - 1) \div (Len(points) * Len(points))) < ((t - 1) \div Len(points)) % Len(points)
                 /\ ((t - 1) \div Len(points)) % Len(points) < (t - 1) % Len(points)
              THEN VandermondeSq(
                      points[((t - 1) \div (Len(points) * Len(points))) + 1][1],
                      points[(((t - 1) \div Len(points)) % Len(points)) + 1][1],
                      points[((t - 1) % Len(points)) + 1][1])
              ELSE R(0)],
           Len(points) * Len(points) * Len(points))

\* Arguments at which the fitted model is evaluated.
QueryXs == { R(-1), R(0), Frac(1, 2), R(6) }

\* C7: computePolynomialRegression2 returns the zero coefficients on fewer
\* than three points and whenever the determinant of the normal equations is
\* below 1e-12 in magnitude; on fewer than three points the fitted quadratic
\* evaluates to 0 everywhere.
DegenerateFitIsZero ==
    (pc = "poly") =>
        /\ (Len(dataPoints) < 3 \/ LtSingularEps(RefDeterminant(dataPoints))) =>
              polyCoeffs = ZeroCoeffs
        /\ Len(dataPoints) < 3 =>
              \A x \in QueryXs : evaluatePoly2(polyCoeffs, x) = R(0)

DegenerateFitReached ==
    /\ pc = "poly"
    /\ dataPoints = << Pt(R(0), R(0)), Pt(R(0), R(1)), Pt(R(1), R(3)) >>
    /\ polyCoeffs = ZeroCoeffs


---------------------------------------------------------------------------
(* Properties of the event loop, checked under Spec.                       *)

FreshPrediction(points, reg, x) ==
    IF reg = "LINEAR"
    THEN FAdd(FMul(computeLinearRegression(points)[1], x),
              computeLinearRegression(points)[2])
    ELSE evaluatePoly2(computePolynomialRegression2(points), x)

\* The stored coefficients of the active kind are the fit of the current points.
ActiveFitIsFresh ==
    /\ currentReg = "LINEAR" =>
          <<slope, intercept>> = computeLinearRegression(dataPoints)
    /\ currentReg = "POLYNOMIAL2" =>
          polyCoeffs = computePolynomialRegression2(dataPoints)

\* An Enter that parses its buffer shows the value, at the parsed x, of the
\* fit computed from scratch over the current points.
PredictionIsFresh ==
    (EnterPressed /\ stof(userInputX)[1] = "ok") =>
        predictionText' =
            <<"Y", FreshPrediction(dataPoints, currentReg, stof(userInputX)[2])>>

\* C1: after every event the stored coefficients of the active fit kind equal
\* the fit computed from scratch over the current points, and a prediction
\* query returns the value of that fit at the queried x.
ModelFollowsPoints == [](pc \in {"loop", "closed"} => ActiveFitIsFresh)
                         /\ [][PredictionIsFresh]_vars

\* The demo points, switched to the quadratic fit and queried at x = 6.
DemoQuadraticQueried ==
    /\ dataPoints = DemoPoints
    /\ currentReg = "POLYNOMIAL2"
    /\ polyCoeffs = [a |-> Frac(17, 70), b |-> Frac(-23, 35), c |-> Frac(83, 50)]
    /\ userInputX = <<"6">>
    /\ predictionText = <<"Y", Frac(323, 50)>>


\* v is the least (greatest) of vals: one of them, with none below (above) it.
IsLeast(v, vals) ==
    /\ \E i \in 1..Len(vals) : vals[i] = v
    /\ \A i \in 1..Len(vals) : ~FLt(vals[i], v)

IsGreatest(v, vals) ==
    /\ \E i \in 1..Len(vals) : vals[i] = v
    /\ \A i \in 1..Len(vals) : ~FGt(vals[i], v)

\* C2 as stated: in every reachable state minX < maxX and minY < maxY, the
\* bounds being the extrema of the points widened by 1 on all four sides, or
\* [-1,1] x [-1,1] when there is no point.
BoundsArePaddedExtrema ==
    /\ FLt(minX, maxX)
    /\ FLt(minY, maxY)
    /\ IF dataPoints = <<>>
       THEN <<minX, maxX, minY, maxY>> = <<R(-1), R(1), R(-1), R(1)>>
       ELSE /\ IsLeast(FAdd(minX, R(1)), Xs(dataPoints))
            /\ IsGreatest(FSub(maxX, R(1)), Xs(dataPoints))
            /\ IsLeast(FAdd(minY, R(1)), Ys(dataPoints))
            /\ IsGreatest(FSub(maxY, R(1)), Ys(dataPoints))

\* The list s without its element number i (counted from 1).
Without(s, i) == SubSeq(s, 1, i - 1) \o SubSeq(s, i + 1, Len(s))

\* Squared distances, in pixels, from the click (mx, my) to the points.
ClickDistances(mx, my) ==
    [i \in 1..Len(dataPoints) |-> DistSq(dataPoints[i], R(mx), R(my), CurView)]

\* The earliest of the points nearest to the click.
IsNearest(i, ds) ==
    /\ IsFinite(ds[i])
    /\ \A j \in 1..Len(ds) : ~FLt(ds[j], ds[i])
    /\ \A j \in 1..(i - 1) : ds[j] # ds[i]

RemovalResult(ds) ==
    IF \E i \in 1..Len(ds) : FLt(ds[i], R(100))
    THEN Without(dataPoints, CHOOSE i \in 1..Len(ds) : IsNearest(i, ds))
    ELSE dataPoints

\* C3: a right click removes exactly the point nearest to it on the screen,
\* the earliest of several equally near, and only if it is nearer than 10
\* pixels; the other points keep their order, and with no point that near, or
\* no point at all, the list stays as it is.
RemovalTakesNearest ==
    [][\A q \in Clicks :
          MouseRight(q[1], q[2]) =>
              dataPoints' = RemovalResult(ClickDistances(q[1], q[2]))]_vars

\* In a window of 100 by 220 every point is drawn at the pixel (50, 170), so
\* a right click there finds the five demo points equally near: the first of
\* them is gone (no other click of the model removes it from the five, and no
\* click adds to four points), the other four are left in their order and
\* are still equally near.
TieRemovalTaken ==
    /\ winSize = <<100, 220>>
    /\ dataPoints = Tail(DemoPoints)
    /\ \A i \in 1..Len(dataPoints) : ClickDistances(50, 170)[i] = R(0)

\* Data points the transforms are tried on: the corners and the centre of the
\* bounds, and the points of the list.
ProbePoints ==
    { <<x, y>> : x \in {minX, maxX, FDiv(FAdd(minX, maxX), R(2))},
                 y \in {minY, maxY, FDiv(FAdd(minY, maxY), R(2))} }
    \cup { dataPoints[i] : i \in 1..Len(dataPoints) }

InsideBounds(p) ==
    /\ ~FLt(p[1], minX) /\ ~FGt(p[1], maxX)
    /\ ~FLt(p[2], minY) /\ ~FGt(p[2], maxY)
    /\ IsFinite(p[1]) /\ IsFinite(p[2])

\* Pixels the transforms are tried on: the clicks inside the window.
ProbePixels ==
    { <<R(q[1]), R(q[2])>> : q \in {c \in Clicks : InsideWindow(c[1], c[2])} }

ToScreen(p) == toScreenCoords(p[1], p[2], CurView)

ToData(q) == toDataCoords(q[1], q[2], CurView)

\* C8 as stated: with the current bounds and window, toDataCoords and
\* toScreenCoords undo each other on the points inside the bounds and on the
\* pixels inside the window.
TransformsAreInverse ==
    /\ \A p \in ProbePoints : InsideBounds(p) => ToData(ToScreen(p)) = p
    /\ \A q \in ProbePixels : ToScreen(ToData(q)) = q

\* C10 as stated: with the current bounds and window, a greater data y is
\* drawn at a strictly smaller screen y and a greater data x at a greater
\* screen x.
AxisIsInverted ==
    \A p1, p2 \in ProbePoints :
        /\ FLt(p1[2], p2[2]) => FLt(ToScreen(p2)[2], ToScreen(p1)[2])
        /\ FLt(p1[1], p2[1]) => FLt(ToScreen(p1)[1], ToScreen(p2)[1])


---------------------------------------------------------------------------
(* Property of the text entry, checked under SpecText.                     *)

\* buf is a real number in writing: an optional '-', then digits with at most
\* one '.' among them, at least one digit, and nothing else.
WellFormedReal(buf) ==
    /\ \E k \in 1..Len(buf) : buf[k] \in Digits
    /\ \A k \in 2..Len(buf) : buf[k] # "-"
    /\ Cardinality({k \in 1..Len(buf) : buf[k] = "."}) <= 1

\* C9 as stated: Enter shows "invalid X" when the buffer is not a well-formed
\* real number, and otherwise the value of the active model at the number the
\* buffer denotes; the loop goes on.
EnterRejectsIllFormed ==
    [][EnterPressed =>
          /\ pc' = "loop"
          /\ predictionText' = IF WellFormedReal(userInputX)
                               THEN Predict(stof(userInputX))
                               ELSE <<"invalid">>]_vars


---------------------------------------------------------------------------
(* Property of the linear fit on degenerate input, checked under SpecFit.  *)

\* C11: computeLinearRegression returns slope 0 and intercept 0 on the empty
\* list, and on a non-empty list whose x are all the same (the denominator is
\* exactly zero) slope 0 with the mean of the y as intercept; the result is
\* finite, no division by zero having taken place.
DegenerateLinearFit ==
    (pc = "linear") =>
        /\ dataPoints = <<>> => (slope = R(0) /\ intercept = R(0))
        /\ Cardinality(DistinctXs(dataPoints)) = 1 =>
              /\ slope = R(0)
              /\ IsFinite(intercept)
              /\ FMul(intercept, R(Len(dataPoints)))
                 = SumSeq(Ys(dataPoints), Len(dataPoints))

\* Two points above x = 1: the horizontal line through the mean of 1 and 3.
DegenerateLinearFitReached ==
    /\ pc = "linear"
    /\ dataPoints = << Pt(R(1), R(1)), Pt(R(1), R(3)) >>
    /\ slope = R(0)
    /\ intercept = R(2)

====
